---- MODULE Spec2Model ----
\* Signal scan and return-series construction of the four trading strategies
\* (strategies.py): BaseStrategy.calculate_returns and the generate_signals
\* methods of ACCStrategy, AdaniEnterprisesStrategy, AdaniPowerStrategy and
\* AdaniPortsStrategy, run on one strategy instance over one bar series.
\*
\* Floats are exact rationals [n, d] (d > 0); d = 0 is pandas' NaN, on which
\* every ordering comparison is false.  Timestamps are integers counting
\* 15-minute ticks (the CSV files are 15-minute bars).  A list index i of the
\* code (0-based, .iloc[i]) is position i + 1 of a TLA+ sequence.
EXTENDS Integers, Sequences, FiniteSets, Bags, TLC

VARIABLES
    strategy,        \* the class of the instance
    data,            \* self.data: [index, col], col a function column -> sequence
    self_signals,    \* self.signals
    pc,              \* "new" | "idle" | "gen" | "ret"
    i,               \* generate_signals: loop index
    signals,         \* generate_signals: local list
    position_open,   \* generate_signals: local flag
    entry_price,     \* generate_signals: local
    entry_date,      \* generate_signals: local (None is the string "None")
    open_after,      \* per bar position of the last scan: position_open after the bar
    k,               \* calculate_returns: enumerate index
    returns,         \* calculate_returns: local series (values, index is data.index)
    position,        \* calculate_returns: local
    ret_entry_price, \* calculate_returns: local entry_price
    ret_entry_index, \* calculate_returns: local entry_index
    out_signals,     \* what the last generate_signals call returned, <<>> before
    out_returns      \* what the last calculate_returns call returned, <<>> before:
                     \* the series (index, values), the signal list it was
                     \* built of and whether generate_signals had been called

vars == <<strategy, data, self_signals, pc, i, signals, position_open,
          entry_price, entry_date, open_after, k, returns, position,
          ret_entry_price, ret_entry_index, out_signals, out_returns>>

-----------------------------------------------------------------------------
\* Float values

Num(x) == [n |-> x, d |-> 1]
NaN == [n |-> 0, d |-> 0]
IsNaN(a) == a.d = 0
Frac(x, y) == [n |-> x, d |-> y]

GT(a, b) == ~IsNaN(a) /\ ~IsNaN(b) /\ a.n * b.d > b.n * a.d
LT(a, b) == ~IsNaN(a) /\ ~IsNaN(b) /\ a.n * b.d < b.n * a.d
GE(a, b) == ~IsNaN(a) /\ ~IsNaN(b) /\ a.n * b.d >= b.n * a.d
LE(a, b) == ~IsNaN(a) /\ ~IsNaN(b) /\ a.n * b.d =< b.n * a.d
EQ(a, b) == ~IsNaN(a) /\ ~IsNaN(b) /\ a.n * b.d = b.n * a.d

\* a * (x / y), x and y positive integers (a decimal literal such as 0.97)
Times(a, x, y) == IF IsNaN(a) THEN NaN ELSE [n |-> a.n * x, d |-> a.d * y]
Minus(a, b) ==
    IF IsNaN(a) \/ IsNaN(b) THEN NaN
    ELSE [n |-> a.n * b.d - b.n * a.d, d |-> a.d * b.d]
Plus(a, b) ==
    IF IsNaN(a) \/ IsNaN(b) THEN NaN
    ELSE [n |-> a.n * b.d + b.n * a.d, d |-> a.d * b.d]
\* a / b; x / 0 is inf or nan in floats, which no input of this model produces
Over(a, b) ==
    IF IsNaN(a) \/ IsNaN(b) \/ b.n = 0 THEN NaN
    ELSE IF b.n > 0 THEN [n |-> a.n * b.d, d |-> a.d * b.n]
    ELSE [n |-> (0 - a.n) * b.d, d |-> a.d * (0 - b.n)]

\* timedelta.days of (t2 - t1): whole days, rounded down
TicksPerDay == 96
Days(t2, t1) == (t2 - t1) \div TicksPerDay

Iloc(s, j) == s[j + 1]
Min(x, y) == IF x < y THEN x ELSE y

-----------------------------------------------------------------------------
\* The DataFrame: index (timestamps), col (the raw columns, whole numbers),
\* isna (per column, the positions that hold NaN) and derived (the names
\* of the columns a constructor added).  A derived column is a function of the
\* raw columns, which nothing reassigns after the constructor: the frame keeps
\* its name and a value is computed where it is read.

None == <<>>
Some(x) == <<x>>

\* the value of a raw cell
Raw(d, c, p) == IF p \in d.isna[c] THEN NaN ELSE Num(d.col[c][p])

WindowHasNaN(d, c, lo, hi) ==
    \E q \in d.isna[c] : lo =< q /\ q =< hi

\* Series.rolling(window=n).max() of raw column c at position p: NaN until
\* the window is full and whenever the window holds a NaN
RollingMax(d, c, n, p) ==
    IF p < n \/ WindowHasNaN(d, c, p - n + 1, p) THEN NaN
    ELSE LET w == {d.col[c][q] : q \in (p - n + 1)..p}
         IN Num(CHOOSE x \in w : \A y \in w : x >= y)

\* Series.rolling(window=n).min()
RollingMin(d, c, n, p) ==
    IF p < n \/ WindowHasNaN(d, c, p - n + 1, p) THEN NaN
    ELSE LET w == {d.col[c][q] : q \in (p - n + 1)..p}
         IN Num(CHOOSE x \in w : \A y \in w : x =< y)

\* seq[lo] + ... + seq[hi], for a column of positive whole numbers (prices,
\* volumes, true ranges): such a window is a bag, the number of copies of q
\* being seq[q], and BagCardinality adds the numbers of copies
WindowSum(seq, lo, hi) == BagCardinality(SubSeq(seq, lo, hi))

\* ta.sma(length=n) and Series.rolling(window=n).mean() of raw column c at p
RollingMean(d, c, n, p) ==
    IF p < n \/ WindowHasNaN(d, c, p - n + 1, p) THEN NaN
    ELSE Frac(WindowSum(d.col[c], p - n + 1, p), n)

\* variant: a derived column is written over the volume column
AddColsInPlace(d, names) ==
    [d EXCEPT !.derived = @ \cup names,
              !.col["volume"] = [p \in DOMAIN @ |-> 0]]

\* df[name] = ... for each name of a set of derived columns
AddCols(d, names) == [d EXCEPT !.derived = @ \cup names]

\* The columns the constructors add, at position p

High_20(d, p) == RollingMax(d, "high", 20, p)
High_30(d, p) == RollingMax(d, "high", 30, p)
SMA_20(d, p) == RollingMean(d, "close", 20, p)
SMA_50(d, p) == RollingMean(d, "close", 50, p)
\* variant: a mean over more bars than the scan skips
SMA_200Long(d, p) == RollingMean(d, "close", 250, p)
SMA_200(d, p) == RollingMean(d, "close", 200, p)

\* pandas_ta's rsi(14), atr(14) and macd(12, 26, 9) of the frame: the columns
\* DataManager.calculate_technical_indicators computed with the same calls
RSI(d, p) == Raw(d, "RSI", p)
ATR(d, p) == Raw(d, "ATR", p)
MACD(d, p) == Raw(d, "MACD", p)
MACD_Signal(d, p) == Raw(d, "MACD_Signal", p)
MACD_Hist(d, p) == Raw(d, "MACD_Hist", p)

ATR_MA(d, p) == RollingMean(d, "ATR", 20, p)

\* rolling(5).max() > rolling(5).max().shift(5): a bool column, False on NaN
Higher_High(d, p) ==
    GT(RollingMax(d, "high", 5, p),
       IF p =< 5 THEN NaN ELSE RollingMax(d, "high", 5, p - 5))
Lower_Low(d, p) ==
    LT(RollingMin(d, "low", 5, p),
       IF p =< 5 THEN NaN ELSE RollingMin(d, "low", 5, p - 5))

Volume_MA(d, p) == RollingMean(d, "volume", 20, p)
Volume_Ratio(d, p) == Over(Raw(d, "volume", p), Volume_MA(d, p))

\* ta.roc(length=n): 100 * (close - close.shift(n)) / close.shift(n)
ta_roc(d, c, n, p) ==
    IF p =< n THEN NaN
    ELSE Times(Over(Minus(Raw(d, c, p), Raw(d, c, p - n)), Raw(d, c, p - n)),
               100, 1)
ROC_5(d, p) == ta_roc(d, "close", 5, p)
ROC_20(d, p) == ta_roc(d, "close", 20, p)

Derived(d, name, p) ==
    CASE name = "High_20" -> High_20(d, p)
      [] name = "High_30" -> High_30(d, p)
      [] name = "SMA_20" -> SMA_20(d, p)
      [] name = "SMA_50" -> SMA_50(d, p)
      [] name = "SMA_200" -> SMA_200(d, p)
      [] name = "RSI" -> RSI(d, p)
      [] name = "ATR" -> ATR(d, p)
      [] name = "MACD" -> MACD(d, p)
      [] name = "MACD_Signal" -> MACD_Signal(d, p)
      [] name = "MACD_Hist" -> MACD_Hist(d, p)
      [] name = "ATR_MA" -> ATR_MA(d, p)
      [] name = "Higher_High" -> Higher_High(d, p)
      [] name = "Lower_Low" -> Lower_Low(d, p)
      [] name = "Volume_MA" -> Volume_MA(d, p)
      [] name = "Volume_Ratio" -> Volume_Ratio(d, p)
      [] name = "ROC_5" -> ROC_5(d, p)
      [] name = "ROC_20" -> ROC_20(d, p)

\* self.data[name].iloc[j]: a column the constructor set, else a raw column
At(d, name, j) ==
    CASE name \in d.derived -> Derived(d, name, j + 1)
      [] name \notin d.derived /\ name \in DOMAIN d.col -> Raw(d, name, j + 1)

NBars(d) == Len(d.index)

-----------------------------------------------------------------------------
\* TradeSignal (strategies.py 8-15)

TradeSignal(timestamp, type, price, stop_loss, take_profit, reason) ==
    [timestamp |-> timestamp, type |-> type, price |-> price,
     stop_loss |-> stop_loss, take_profit |-> take_profit, reason |-> reason]

\* The locals of a generate_signals call
Locals(sigs, open, price, date) ==
    [signals |-> sigs, position_open |-> open, entry_price |-> price,
     entry_date |-> date]

\* variant: the exit forgets to clear the entry
FlatKeepsEntry(L) == Locals(L.signals, FALSE, L.entry_price, L.entry_date)

Flat(L) == Locals(L.signals, FALSE, Num(0), None)

-----------------------------------------------------------------------------
\* AdaniEnterprisesStrategy

AdaniEnterprisesInit(d) == AddCols(d, {"High_20"})

\* variant: the holding period has to be exceeded
AdaniEnterprisesExitStrict(d, j, L) ==
    LET current_price == At(d, "close", j)
        current_date == Iloc(d.index, j)
    IN \/ Days(current_date, L.entry_date[1]) > 10
       \/ LE(current_price, Times(L.entry_price, 97, 100))

AdaniEnterprisesExit(d, j, L) ==
    LET current_price == At(d, "close", j)
        current_date == Iloc(d.index, j)
    IN \/ Days(current_date, L.entry_date[1]) >= 10
       \/ LE(current_price, Times(L.entry_price, 97, 100))

\* variant: the rolling high of the bar itself
AdaniEnterprisesEntryCurrent(d, j, L) ==
    GT(At(d, "close", j), At(d, "High_20", j))

AdaniEnterprisesEntry(d, j, L) ==
    GT(At(d, "close", j), At(d, "High_20", j - 1))

\* variant: the signal carries the open of the bar
AdaniEnterprisesSignalOpen(d, j) ==
    LET current_price == At(d, "close", j)
    IN TradeSignal(Iloc(d.index, j), "LONG", At(d, "open", j),
                   Times(current_price, 97, 100), Times(current_price, 112, 100),
                   "20-day high breakout")

AdaniEnterprisesSignal(d, j) ==
    LET current_price == At(d, "close", j)
    IN TradeSignal(Iloc(d.index, j), "LONG", current_price,
                   Times(current_price, 97, 100), Times(current_price, 112, 100),
                   "20-day high breakout")

\* variant: the take_profit of the open signal closes the position
AdaniEnterprisesIterEnforced(d, j, L) ==
    IF /\ L.position_open
       /\ \/ AdaniEnterprisesExit(d, j, L)
          \/ GE(At(d, "close", j), L.signals[Len(L.signals)].take_profit)
    THEN Flat(L)
    ELSE IF ~L.position_open /\ AdaniEnterprisesEntry(d, j, L)
    THEN Locals(Append(L.signals, AdaniEnterprisesSignal(d, j)), TRUE,
                At(d, "close", j), Some(Iloc(d.index, j)))
    ELSE L

\* variant: the exit branch falls through to the entry test
AdaniEnterprisesIterFallThrough(d, j, L) ==
    IF L.position_open /\ AdaniEnterprisesExit(d, j, L)
    THEN IF AdaniEnterprisesEntry(d, j, Flat(L))
         THEN Locals(Append(L.signals, AdaniEnterprisesSignal(d, j)), TRUE,
                     At(d, "close", j), Some(Iloc(d.index, j)))
         ELSE Flat(L)
    ELSE IF ~L.position_open /\ AdaniEnterprisesEntry(d, j, L)
    THEN Locals(Append(L.signals, AdaniEnterprisesSignal(d, j)), TRUE,
                At(d, "close", j), Some(Iloc(d.index, j)))
    ELSE L

\* one iteration of the loop of generate_signals
AdaniEnterprisesIter(d, j, L) ==
    IF L.position_open /\ AdaniEnterprisesExit(d, j, L) THEN Flat(L)
    ELSE IF ~L.position_open /\ AdaniEnterprisesEntry(d, j, L)
    THEN Locals(Append(L.signals, AdaniEnterprisesSignal(d, j)), TRUE,
                At(d, "close", j), Some(Iloc(d.index, j)))
    ELSE L

-----------------------------------------------------------------------------
\* AdaniPortsStrategy

AdaniPortsInit(d) == AddCols(d, {"High_30"})

AdaniPortsExit(d, j, L) ==
    LET current_price == At(d, "close", j)
        current_date == Iloc(d.index, j)
    IN \/ Days(current_date, L.entry_date[1]) >= 10
       \/ LE(current_price, Times(L.entry_price, 95, 100))

\* variant: the breakout is confirmed by the close of the next bar
AdaniPortsEntryPeek(d, j, L) ==
    /\ GT(At(d, "close", j), At(d, "High_30", j - 1))
    /\ j + 1 < NBars(d) => GE(At(d, "close", j + 1), At(d, "close", j))

AdaniPortsEntry(d, j, L) ==
    GT(At(d, "close", j), At(d, "High_30", j - 1))

AdaniPortsSignal(d, j) ==
    LET current_price == At(d, "close", j)
    IN TradeSignal(Iloc(d.index, j), "LONG", current_price,
                   Times(current_price, 95, 100), Times(current_price, 112, 100),
                   "30-day high breakout")

\* variant: the entry test does not look at position_open
AdaniPortsIterPyramid(d, j, L) ==
    IF L.position_open /\ AdaniPortsExit(d, j, L) THEN Flat(L)
    ELSE IF AdaniPortsEntry(d, j, L)
    THEN Locals(Append(L.signals, AdaniPortsSignal(d, j)), TRUE,
                At(d, "close", j), Some(Iloc(d.index, j)))
    ELSE L

AdaniPortsIter(d, j, L) ==
    IF L.position_open /\ AdaniPortsExit(d, j, L) THEN Flat(L)
    ELSE IF ~L.position_open /\ AdaniPortsEntry(d, j, L)
    THEN Locals(Append(L.signals, AdaniPortsSignal(d, j)), TRUE,
                At(d, "close", j), Some(Iloc(d.index, j)))
    ELSE L

-----------------------------------------------------------------------------
\* AdaniPowerStrategy

AdaniPowerInit(d) == AddCols(d, {"SMA_50", "SMA_200"})

golden_cross(d, j) ==
    /\ LE(At(d, "SMA_50", j - 1), At(d, "SMA_200", j - 1))
    /\ GT(At(d, "SMA_50", j), At(d, "SMA_200", j))

\* variant: the cross counts once SMA_50 is 1% below SMA_200
death_crossDeep(d, j) ==
    /\ GE(At(d, "SMA_50", j - 1), At(d, "SMA_200", j - 1))
    /\ LT(At(d, "SMA_50", j), Times(At(d, "SMA_200", j), 99, 100))

death_cross(d, j) ==
    /\ GE(At(d, "SMA_50", j - 1), At(d, "SMA_200", j - 1))
    /\ LT(At(d, "SMA_50", j), At(d, "SMA_200", j))

AdaniPowerExit(d, j, L) == death_cross(d, j)

AdaniPowerEntry(d, j, L) == golden_cross(d, j)

\* variant: the stop of the breakout strategy
AdaniPowerSignalCopied(d, j) ==
    LET current_price == At(d, "close", j)
    IN TradeSignal(Iloc(d.index, j), "LONG", current_price,
                   Times(current_price, 97, 100), Times(current_price, 112, 100),
                   "50/200 SMA golden cross")

AdaniPowerSignal(d, j) ==
    LET current_price == At(d, "close", j)
    IN TradeSignal(Iloc(d.index, j), "LONG", current_price,
                   Times(current_price, 94, 100), Times(current_price, 112, 100),
                   "50/200 SMA golden cross")

AdaniPowerIter(d, j, L) ==
    IF L.position_open /\ AdaniPowerExit(d, j, L) THEN Flat(L)
    ELSE IF ~L.position_open /\ AdaniPowerEntry(d, j, L)
    THEN Locals(Append(L.signals, AdaniPowerSignal(d, j)), TRUE,
                At(d, "close", j), Some(Iloc(d.index, j)))
    ELSE L

-----------------------------------------------------------------------------
\* ACCStrategy

ACCInit(d) ==
    AddCols(d, {"SMA_20", "SMA_50", "SMA_200", "RSI", "ATR", "ATR_MA", "MACD",
                "MACD_Signal", "MACD_Hist", "Higher_High", "Lower_Low",
                "Volume_MA", "Volume_Ratio", "ROC_5", "ROC_20"})

volatility_exit(d, j) ==
    GT(At(d, "ATR", j), Times(At(d, "ATR_MA", j), 13, 10))
trend_exit(d, j) == LT(At(d, "close", j), At(d, "SMA_20", j))
momentum_exit(d, j) ==
    /\ LT(At(d, "MACD", j), At(d, "MACD_Signal", j))
    /\ LT(At(d, "MACD_Hist", j), Num(0))
rsi_exit(d, j) == GT(At(d, "RSI", j), Num(70))

ACCExit(d, j, L) ==
    LET current_price == At(d, "close", j)
        current_date == Iloc(d.index, j)
    IN \/ volatility_exit(d, j)
       \/ trend_exit(d, j)
       \/ momentum_exit(d, j)
       \/ rsi_exit(d, j)
       \/ LE(current_price, Times(L.entry_price, 98, 100))
       \/ GE(current_price, Times(L.entry_price, 104, 100))
       \/ Days(current_date, L.entry_date[1]) >= 8

volatility_ok(d, j) ==
    /\ LT(At(d, "ATR", j), Times(At(d, "ATR_MA", j), 11, 10))
    /\ GT(At(d, "ATR", j), Times(At(d, "ATR_MA", j), 7, 10))
trend_ok(d, j) ==
    /\ GT(At(d, "close", j), At(d, "SMA_20", j))
    /\ GT(At(d, "SMA_20", j), At(d, "SMA_50", j))
    /\ GT(At(d, "SMA_50", j), At(d, "SMA_200", j))
momentum_ok(d, j) ==
    /\ GT(At(d, "RSI", j), Num(45))
    /\ LT(At(d, "RSI", j), Num(65))
    /\ GT(At(d, "MACD", j), At(d, "MACD_Signal", j))
    /\ GT(At(d, "MACD_Hist", j), Num(0))
    /\ GT(At(d, "ROC_5", j), Num(0))
    /\ GT(At(d, "ROC_20", j), Num(0))
volume_ok(d, j) == GT(At(d, "Volume_Ratio", j), Frac(13, 10))
pattern_ok(d, j) ==
    /\ At(d, "Higher_High", j)
    /\ ~At(d, "Lower_Low", j)
    /\ GT(At(d, "close", j), Times(At(d, "SMA_20", j), 101, 100))

ACCEntry(d, j, L) ==
    /\ volatility_ok(d, j)
    /\ trend_ok(d, j)
    /\ momentum_ok(d, j)
    /\ volume_ok(d, j)
    /\ pattern_ok(d, j)

\* variant: a signal of the other type
ACCSignalShort(d, j) ==
    LET current_price == At(d, "close", j)
        atr == At(d, "ATR", j)
    IN TradeSignal(Iloc(d.index, j), "SHORT", current_price,
                   Plus(current_price, Times(atr, 12, 10)),
                   Minus(current_price, Times(atr, 20, 10)),
                   "Strong trend with momentum and volume confirmation")

ACCSignal(d, j) ==
    LET current_price == At(d, "close", j)
        atr == At(d, "ATR", j)
    IN TradeSignal(Iloc(d.index, j), "LONG", current_price,
                   Minus(current_price, Times(atr, 12, 10)),
                   Plus(current_price, Times(atr, 20, 10)),
                   "Strong trend with momentum and volume confirmation")

ACCIter(d, j, L) ==
    IF L.position_open /\ ACCExit(d, j, L) THEN Flat(L)
    ELSE IF ~L.position_open /\ ACCEntry(d, j, L)
    THEN Locals(Append(L.signals, ACCSignal(d, j)), TRUE,
                At(d, "close", j), Some(Iloc(d.index, j)))
    ELSE L

-----------------------------------------------------------------------------
\* The four classes behind one interface

Strategies == {"ACC", "AdaniEnterprises", "AdaniPower", "AdaniPorts"}

\* variant: the loop starts one bar early
StartEarly(s) ==
    CASE s = "ACC" -> 199
      [] s = "AdaniEnterprises" -> 19
      [] s = "AdaniPower" -> 199
      [] s = "AdaniPorts" -> 29

\* first index of the loop of generate_signals
Start(s) ==
    CASE s = "ACC" -> 200
      [] s = "AdaniEnterprises" -> 20
      [] s = "AdaniPower" -> 200
      [] s = "AdaniPorts" -> 30

Construct(s, d) ==
    CASE s = "ACC" -> ACCInit(d)
      [] s = "AdaniEnterprises" -> AdaniEnterprisesInit(d)
      [] s = "AdaniPower" -> AdaniPowerInit(d)
      [] s = "AdaniPorts" -> AdaniPortsInit(d)

Iter(s, d, j, L) ==
    CASE s = "ACC" -> ACCIter(d, j, L)
      [] s = "AdaniEnterprises" -> AdaniEnterprisesIter(d, j, L)
      [] s = "AdaniPower" -> AdaniPowerIter(d, j, L)
      [] s = "AdaniPorts" -> AdaniPortsIter(d, j, L)

ExitHolds(s, d, j, L) ==
    CASE s = "ACC" -> ACCExit(d, j, L)
      [] s = "AdaniEnterprises" -> AdaniEnterprisesExit(d, j, L)
      [] s = "AdaniPower" -> AdaniPowerExit(d, j, L)
      [] s = "AdaniPorts" -> AdaniPortsExit(d, j, L)

\* the holding-period limit in days: there is none in AdaniPower
HoldLimit(s) == IF s = "ACC" THEN 8 ELSE 10

\* (current_date - entry_date).days >= limit
HoldingExit(s, d, j, L) ==
    /\ s # "AdaniPower"
    /\ Days(Iloc(d.index, j), L.entry_date[1]) >= HoldLimit(s)

EntryHolds(s, d, j, L) ==
    CASE s = "ACC" -> ACCEntry(d, j, L)
      [] s = "AdaniEnterprises" -> AdaniEnterprisesEntry(d, j, L)
      [] s = "AdaniPower" -> AdaniPowerEntry(d, j, L)
      [] s = "AdaniPorts" -> AdaniPortsEntry(d, j, L)

-----------------------------------------------------------------------------
\* BaseStrategy.calculate_returns

\* pd.Series(0.0, index=self.data.index)
Zeros(d) == [p \in 1..NBars(d) |-> Num(0)]

RetLocals(rets, pos, price, idx) ==
    [returns |-> rets, position |-> pos, entry_price |-> price,
     entry_index |-> idx]

\* variant: the mask has no lower end (index > entry_index is dropped)
MaskNoLower(d, sigs, kk, entry_index) ==
    LET next_signal_idx == IF kk + 1 < Len(sigs) THEN kk + 1 ELSE Len(sigs)
    IN IF next_signal_idx < Len(sigs)
       THEN {p \in 1..NBars(d) :
                d.index[p] =< Iloc(sigs, next_signal_idx).timestamp}
       ELSE 1..NBars(d)

\* variant: the mask ends before the next signal's bar (< for <=)
MaskOpenEnd(d, sigs, kk, entry_index) ==
    LET next_signal_idx == IF kk + 1 < Len(sigs) THEN kk + 1 ELSE Len(sigs)
    IN IF next_signal_idx < Len(sigs)
       THEN {p \in 1..NBars(d) :
                /\ d.index[p] > entry_index
                /\ d.index[p] < Iloc(sigs, next_signal_idx).timestamp}
       ELSE {p \in 1..NBars(d) : d.index[p] > entry_index}

\* variant: the mask starts at the entry bar (>= for >)
MaskFromEntry(d, sigs, kk, entry_index) ==
    LET next_signal_idx == IF kk + 1 < Len(sigs) THEN kk + 1 ELSE Len(sigs)
    IN IF next_signal_idx < Len(sigs)
       THEN {p \in 1..NBars(d) :
                /\ d.index[p] >= entry_index
                /\ d.index[p] =< Iloc(sigs, next_signal_idx).timestamp}
       ELSE {p \in 1..NBars(d) : d.index[p] >= entry_index}

\* the boolean mask of one signal: the positions it selects
Mask(d, sigs, kk, entry_index) ==
    LET next_signal_idx == IF kk + 1 < Len(sigs) THEN kk + 1 ELSE Len(sigs)
    IN IF next_signal_idx < Len(sigs)
       THEN {p \in 1..NBars(d) :
                /\ d.index[p] > entry_index
                /\ d.index[p] =< Iloc(sigs, next_signal_idx).timestamp}
       ELSE {p \in 1..NBars(d) : d.index[p] > entry_index}

\* one iteration of the loop over enumerate(self.signals)
RetIter(d, sigs, kk, R) ==
    LET signal == Iloc(sigs, kk)
        R1 == IF signal.type = "LONG"
              THEN RetLocals(R.returns, 1, signal.price, Some(signal.timestamp))
              ELSE R
    IN IF R1.position = 1
       THEN LET mask == Mask(d, sigs, kk, R1.entry_index[1])
            IN IF mask # {}
               THEN RetLocals(
                        [p \in 1..NBars(d) |->
                            IF p \in mask
                            THEN Over(Minus(At(d, "close", p - 1), R1.entry_price),
                                      R1.entry_price)
                            ELSE R1.returns[p]],
                        0, R1.entry_price, R1.entry_index)
               ELSE R1
       ELSE R1

-----------------------------------------------------------------------------
\* Bar series handed to the constructor

\* bars after the warm-up prefix
MaxTail == 3

Bar(gap, o, h, l, c, v) ==
    [gap |-> gap, open |-> o, high |-> h, low |-> l, close |-> c, volume |-> v]

AccBar(gap, o, h, l, c, v, rsi, atr, macd, macds) ==
    [gap |-> gap, open |-> o, high |-> h, low |-> l, close |-> c, volume |-> v,
     RSI |-> rsi, ATR |-> atr, MACD |-> macd, MACD_Signal |-> macds,
     MACD_Hist |-> macd - macds]

\* the warm-up prefix: quiet 15-minute bars at 100; in shape "spike" the
\* first bar has a high of 110, in shape "nolow" the CSV has no low in the
\* row of bar 196
PrefixBar(s, shape, j) ==
    LET h == IF shape = "spike" /\ j = 1 THEN 110 ELSE 100
    IN IF s = "ACC" THEN AccBar(1, 100, h, 100, 100, 1000, 50, 2, 0, 0)
       ELSE Bar(1, 100, h, 100, 100, 1000)

Shapes(s) ==
    IF s \in {"AdaniEnterprises", "AdaniPorts"} THEN {"flat", "spike"}
    ELSE IF s = "ACC" THEN {"flat", "nolow"}
    ELSE {"flat"}

\* the first values of pandas_ta's rsi(14), atr(14) and macd(12, 26, 9) are
\* NaN: 14 of RSI and of ATR, 25 of MACD, 33 of its signal and histogram
TaWarmUp(c) ==
    CASE c \in {"RSI", "ATR"} -> 14
      [] c = "MACD" -> 25
      [] c \in {"MACD_Signal", "MACD_Hist"} -> 33
      [] OTHER -> 0

\* the positions of column c that hold NaN in a frame of n bars
NaNCells(shape, c, n) ==
    {q \in 1..n : q =< TaWarmUp(c) \/ (shape = "nolow" /\ c = "low" /\ q = 197)}

\* 960 ticks are ten days, 768 ticks eight days: a bar 950 (760) ticks after
\* an entry is on the tenth (eighth) calendar day after it and less than ten
\* (eight) days later; the bar 10 (8) ticks after that one is ten (eight)
\* days later
BreakoutBars ==
    { Bar(1, 100, 104, 100, 104, 1000),
      Bar(1, 104, 104, 98, 98, 1000),
      Bar(10, 104, 120, 104, 118, 1000),
      Bar(950, 103, 103, 103, 103, 1000) }

CrossBars ==
    { Bar(1, 100, 100, 100, 100, 1000),
      Bar(1, 100, 110, 100, 110, 1000),
      Bar(1, 100, 100, 60, 60, 1000),
      Bar(1, 100, 200, 100, 200, 1000) }

AccBars ==
    { AccBar(1, 100, 105, 100, 104, 2000, 60, 2, 1, 0),
      AccBar(8, 104, 108, 104, 108, 2000, 60, 2, 1, 0),
      AccBar(1, 104, 104, 101, 101, 1000, 60, 2, 1, 0),
      AccBar(760, 104, 106, 104, 105, 1000, 60, 2, 1, 0) }

TailBars(s) ==
    CASE s = "ACC" -> AccBars
      [] s = "AdaniPower" -> CrossBars
      [] OTHER -> BreakoutBars

\* AdaniPower has fewer kinds of bars and gets one bar more, which lets a
\* second position last beyond its entry bar
TailLen(s) == IF s = "AdaniPower" THEN MaxTail + 1 ELSE MaxTail

Tails(s) == UNION {[1..n -> TailBars(s)] : n \in 0..TailLen(s)}

\* series too short for the loop to run: 0, 1, Start - 1 and Start bars
ShortLens(s) == {0, 1, Start(s) - 1, Start(s)}

RECURSIVE SumGaps(_, _, _)
SumGaps(bars, lo, hi) ==
    IF lo > hi THEN 0
    ELSE IF lo = hi THEN bars[lo].gap
    ELSE LET mid == (lo + hi) \div 2
         IN SumGaps(bars, lo, mid) + SumGaps(bars, mid + 1, hi)

RawCols(s) ==
    {"open", "high", "low", "close", "volume"} \cup
    (IF s = "ACC" THEN {"RSI", "ATR", "MACD", "MACD_Signal", "MACD_Hist"}
     ELSE {})

\* the DataFrame of the prefix bars followed by the tail bars: the index is
\* the timestamps, strictly ascending (a bar's gap is the time since the
\* bar before it; the first bar is at 0)
FrameOf(s, shape, prefix, tail) ==
    LET np == Len(prefix)
        bars == prefix \o tail
    IN [index |-> [p \in 1..Len(bars) |->
                      IF p =< np THEN p - 1
                      ELSE np - 1 + SumGaps(tail, 1, p - np)],
        col |-> [c \in RawCols(s) |-> [p \in 1..Len(bars) |-> bars[p][c]]],
        isna |-> [c \in RawCols(s) |-> NaNCells(shape, c, Len(bars))],
        derived |-> {}]

Inputs(s) ==
    { FrameOf(s, shape, [p \in 1..n |-> PrefixBar(s, shape, p)], <<>>) :
          <<shape, n>> \in Shapes(s) \X ShortLens(s) }
    \cup
    { FrameOf(s, shape, [p \in 1..Start(s) |-> PrefixBar(s, shape, p)], tail) :
          <<shape, tail>> \in Shapes(s) \X Tails(s) }

-----------------------------------------------------------------------------
\* The state machine: one instance, constructed, then any sequence of
\* generate_signals and calculate_returns calls

Init ==
    /\ strategy \in Strategies
    /\ data \in Inputs(strategy)
    /\ self_signals = <<>>
    /\ pc = "new"
    /\ i = 0
    /\ signals = <<>>
    /\ position_open = FALSE
    /\ entry_price = Num(0)
    /\ entry_date = None
    /\ open_after = <<>>
    /\ k = 0
    /\ returns = <<>>
    /\ position = 0
    /\ ret_entry_price = Num(0)
    /\ ret_entry_index = None
    /\ out_signals = None
    /\ out_returns = None

genVars == <<i, signals, position_open, entry_price, entry_date>>
retVars == <<k, returns, position, ret_entry_price, ret_entry_index>>

\* strategy_class(stock_data): __init__
New ==
    /\ pc = "new"
    /\ data' = Construct(strategy, data)
    /\ self_signals' = <<>>
    /\ pc' = "idle"
    /\ UNCHANGED <<strategy, genVars, open_after, retVars, out_signals,
                   out_returns>>

\* variant: the scan goes on from the list and the position of the instance
GenStartAccumulate ==
    /\ pc = "idle"
    /\ signals' = self_signals
    /\ position_open' = (self_signals # <<>>)
    /\ entry_price' = IF self_signals # <<>>
                      THEN self_signals[Len(self_signals)].price ELSE Num(0)
    /\ entry_date' = IF self_signals # <<>>
                     THEN Some(self_signals[Len(self_signals)].timestamp)
                     ELSE None
    /\ i' = Start(strategy)
    /\ open_after' = [p \in 1..NBars(data) |-> FALSE]
    /\ pc' = "gen"
    /\ UNCHANGED <<strategy, data, self_signals, retVars, out_signals,
                   out_returns>>

\* generate_signals: the lines before the loop
GenStart ==
    /\ pc = "idle"
    /\ signals' = <<>>
    /\ position_open' = FALSE
    /\ entry_price' = Num(0)
    /\ entry_date' = None
    /\ i' = Start(strategy)
    /\ open_after' = [p \in 1..NBars(data) |-> FALSE]
    /\ pc' = "gen"
    /\ UNCHANGED <<strategy, data, self_signals, retVars, out_signals,
                   out_returns>>

\* generate_signals: one iteration of the loop
GenBar ==
    /\ pc = "gen"
    /\ i < NBars(data)
    /\ LET L == Iter(strategy, data, i,
                     Locals(signals, position_open, entry_price, entry_date))
       IN /\ signals' = L.signals
          /\ position_open' = L.position_open
          /\ entry_price' = L.entry_price
          /\ entry_date' = L.entry_date
          /\ open_after' = [open_after EXCEPT ![i + 1] = L.position_open]
    /\ i' = i + 1
    /\ UNCHANGED <<strategy, data, self_signals, pc, retVars, out_signals,
                   out_returns>>

\* generate_signals: self.signals = signals; return signals
GenReturn ==
    /\ pc = "gen"
    /\ i >= NBars(data)
    /\ self_signals' = signals
    /\ out_signals' = Some(signals)
    /\ signals' = <<>>
    /\ position_open' = FALSE
    /\ entry_price' = Num(0)
    /\ entry_date' = None
    /\ i' = 0
    /\ pc' = "idle"
    /\ UNCHANGED <<strategy, data, open_after, retVars, out_returns>>

\* calculate_returns: the lines before the loop
RetStart ==
    /\ pc = "idle"
    /\ returns' = Zeros(data)
    /\ position' = 0
    /\ ret_entry_price' = Num(0)
    /\ ret_entry_index' = None
    /\ k' = 0
    /\ pc' = "ret"
    /\ UNCHANGED <<strategy, data, self_signals, genVars, open_after,
                   out_signals, out_returns>>

\* calculate_returns: one iteration of the loop
RetSignal ==
    /\ pc = "ret"
    /\ k < Len(self_signals)
    /\ LET R == RetIter(data, self_signals, k,
                        RetLocals(returns, position, ret_entry_price,
                                  ret_entry_index))
       IN /\ returns' = R.returns
          /\ position' = R.position
          /\ ret_entry_price' = R.entry_price
          /\ ret_entry_index' = R.entry_index
    /\ k' = k + 1
    /\ UNCHANGED <<strategy, data, self_signals, pc, genVars, open_after,
                   out_signals, out_returns>>

\* calculate_returns: return returns
RetReturn ==
    /\ pc = "ret"
    /\ k >= Len(self_signals)
    /\ out_returns' = Some([index |-> data.index, values |-> returns,
                            of |-> self_signals,
                            after_gen |-> out_signals # None])
    /\ returns' = <<>>
    /\ position' = 0
    /\ ret_entry_price' = Num(0)
    /\ ret_entry_index' = None
    /\ k' = 0
    /\ pc' = "idle"
    /\ UNCHANGED <<strategy, data, self_signals, genVars, open_after,
                   out_signals>>

Next ==
    \/ New
    \/ GenStart
    \/ GenBar
    \/ GenReturn
    \/ RetStart
    \/ RetSignal
    \/ RetReturn

Spec == Init /\ [][Next]_vars

-----------------------------------------------------------------------------
\* Two instruments: the portfolio loop builds one instance per stock, each on
\* its own copy of that stock's bars, and calls generate_signals and then
\* calculate_returns on it. Here the steps of two such runs interleave, and
\* every variable holds one value per instance.

Instances == {1, 2}

\* bars after the warm-up prefix of each of the two series
TwoTail == 2

\* a bar that opens a position after the warm-up prefix
EntryBar(s) ==
    CASE s = "ACC" -> AccBar(1, 100, 105, 100, 104, 2000, 60, 2, 1, 0)
      [] s = "AdaniPower" -> Bar(1, 100, 110, 100, 110, 1000)
      [] OTHER -> Bar(1, 100, 104, 100, 104, 1000)

\* a bar that closes the position EntryBar opens
StopBar(s) ==
    CASE s = "ACC" -> AccBar(1, 104, 104, 101, 101, 1000, 60, 2, 1, 0)
      [] s = "AdaniPower" -> Bar(1, 100, 100, 60, 60, 1000)
      [] OTHER -> Bar(1, 104, 104, 98, 98, 1000)

\* an entry bar, then entry and stop bars
TwoTails(s) ==
    { <<EntryBar(s)>> \o rest :
          rest \in [1..(TwoTail - 1) -> {EntryBar(s), StopBar(s)}] }

TwoInputs(s) ==
    { FrameOf(s, "flat", [p \in 1..Start(s) |-> PrefixBar(s, "flat", p)], tail) :
          tail \in TwoTails(s) }

InitTwo ==
    /\ strategy \in [Instances -> Strategies]
    /\ data \in [Instances -> UNION {TwoInputs(s) : s \in Strategies}]
    /\ \A a \in Instances : data[a] \in TwoInputs(strategy[a])
    /\ data[1] # data[2]
    /\ self_signals = [a \in Instances |-> <<>>]
    /\ pc = [a \in Instances |-> "new"]
    /\ i = [a \in Instances |-> 0]
    /\ signals = [a \in Instances |-> <<>>]
    /\ position_open = [a \in Instances |-> FALSE]
    /\ entry_price = [a \in Instances |-> Num(0)]
    /\ entry_date = [a \in Instances |-> None]
    /\ open_after = [a \in Instances |-> <<>>]
    /\ k = [a \in Instances |-> 0]
    /\ returns = [a \in Instances |-> <<>>]
    /\ position = [a \in Instances |-> 0]
    /\ ret_entry_price = [a \in Instances |-> Num(0)]
    /\ ret_entry_index = [a \in Instances |-> None]
    /\ out_signals = [a \in Instances |-> None]
    /\ out_returns = [a \in Instances |-> None]

\* strategy = strategy_class(stock_data)
NewOf(a) ==
    /\ pc[a] = "new"
    /\ data' = [data EXCEPT ![a] = Construct(strategy[a], data[a])]
    /\ self_signals' = [self_signals EXCEPT ![a] = <<>>]
    /\ pc' = [pc EXCEPT ![a] = "idle"]
    /\ UNCHANGED <<strategy, genVars, open_after, retVars, out_signals,
                   out_returns>>

\* signals = strategy.generate_signals(): the lines before the loop
GenStartOf(a) ==
    /\ pc[a] = "idle"
    /\ out_signals[a] = None
    /\ signals' = [signals EXCEPT ![a] = <<>>]
    /\ position_open' = [position_open EXCEPT ![a] = FALSE]
    /\ entry_price' = [entry_price EXCEPT ![a] = Num(0)]
    /\ entry_date' = [entry_date EXCEPT ![a] = None]
    /\ i' = [i EXCEPT ![a] = Start(strategy[a])]
    /\ open_after' = [open_after EXCEPT
                          ![a] = [p \in 1..NBars(data[a]) |-> FALSE]]
    /\ pc' = [pc EXCEPT ![a] = "gen"]
    /\ UNCHANGED <<strategy, data, self_signals, retVars, out_signals,
                   out_returns>>

\* variant: signals and the position are names of the module, one for all
\* instances
GenBarShared(a) ==
    /\ pc[a] = "gen"
    /\ i[a] < NBars(data[a])
    /\ LET L == Iter(strategy[a], data[a], i[a],
                     Locals(signals[a], position_open[a], entry_price[a],
                            entry_date[a]))
       IN /\ signals' = [b \in Instances |-> L.signals]
          /\ position_open' = [b \in Instances |-> L.position_open]
          /\ entry_price' = [b \in Instances |-> L.entry_price]
          /\ entry_date' = [b \in Instances |-> L.entry_date]
          /\ open_after' = [open_after EXCEPT
                                ![a][i[a] + 1] = L.position_open]
    /\ i' = [i EXCEPT ![a] = i[a] + 1]
    /\ UNCHANGED <<strategy, data, self_signals, pc, retVars, out_signals,
                   out_returns>>

\* generate_signals: one iteration of the loop
GenBarOf(a) ==
    /\ pc[a] = "gen"
    /\ i[a] < NBars(data[a])
    /\ LET L == Iter(strategy[a], data[a], i[a],
                     Locals(signals[a], position_open[a], entry_price[a],
                            entry_date[a]))
       IN /\ signals' = [signals EXCEPT ![a] = L.signals]
          /\ position_open' = [position_open EXCEPT ![a] = L.position_open]
          /\ entry_price' = [entry_price EXCEPT ![a] = L.entry_price]
          /\ entry_date' = [entry_date EXCEPT ![a] = L.entry_date]
          /\ open_after' = [open_after EXCEPT
                                ![a][i[a] + 1] = L.position_open]
    /\ i' = [i EXCEPT ![a] = i[a] + 1]
    /\ UNCHANGED <<strategy, data, self_signals, pc, retVars, out_signals,
                   out_returns>>

\* generate_signals: self.signals = signals; return signals
GenReturnOf(a) ==
    /\ pc[a] = "gen"
    /\ i[a] >= NBars(data[a])
    /\ self_signals' = [self_signals EXCEPT ![a] = signals[a]]
    /\ out_signals' = [out_signals EXCEPT ![a] = Some(signals[a])]
    /\ signals' = [signals EXCEPT ![a] = <<>>]
    /\ position_open' = [position_open EXCEPT ![a] = FALSE]
    /\ entry_price' = [entry_price EXCEPT ![a] = Num(0)]
    /\ entry_date' = [entry_date EXCEPT ![a] = None]
    /\ i' = [i EXCEPT ![a] = 0]
    /\ pc' = [pc EXCEPT ![a] = "idle"]
    /\ UNCHANGED <<strategy, data, open_after, retVars, out_returns>>

\* returns = strategy.calculate_returns(): the lines before the loop
RetStartOf(a) ==
    /\ pc[a] = "idle"
    /\ out_signals[a] # None
    /\ out_returns[a] = None
    /\ returns' = [returns EXCEPT ![a] = Zeros(data[a])]
    /\ position' = [position EXCEPT ![a] = 0]
    /\ ret_entry_price' = [ret_entry_price EXCEPT ![a] = Num(0)]
    /\ ret_entry_index' = [ret_entry_index EXCEPT ![a] = None]
    /\ k' = [k EXCEPT ![a] = 0]
    /\ pc' = [pc EXCEPT ![a] = "ret"]
    /\ UNCHANGED <<strategy, data, self_signals, genVars, open_after,
                   out_signals, out_returns>>

\* calculate_returns: one iteration of the loop
RetSignalOf(a) ==
    /\ pc[a] = "ret"
    /\ k[a] < Len(self_signals[a])
    /\ LET R == RetIter(data[a], self_signals[a], k[a],
                        RetLocals(returns[a], position[a],
                                  ret_entry_price[a], ret_entry_index[a]))
       IN /\ returns' = [returns EXCEPT ![a] = R.returns]
          /\ position' = [position EXCEPT ![a] = R.position]
          /\ ret_entry_price' = [ret_entry_price EXCEPT ![a] = R.entry_price]
          /\ ret_entry_index' = [ret_entry_index EXCEPT ![a] = R.entry_index]
    /\ k' = [k EXCEPT ![a] = k[a] + 1]
    /\ UNCHANGED <<strategy, data, self_signals, pc, genVars, open_after,
                   out_signals, out_returns>>

\* calculate_returns: return returns
RetReturnOf(a) ==
    /\ pc[a] = "ret"
    /\ k[a] >= Len(self_signals[a])
    /\ out_returns' = [out_returns EXCEPT
                           ![a] = Some([index |-> data[a].index,
                                        values |-> returns[a],
                                        of |-> self_signals[a],
                                        after_gen |-> TRUE])]
    /\ returns' = [returns EXCEPT ![a] = <<>>]
    /\ position' = [position EXCEPT ![a] = 0]
    /\ ret_entry_price' = [ret_entry_price EXCEPT ![a] = Num(0)]
    /\ ret_entry_index' = [ret_entry_index EXCEPT ![a] = None]
    /\ k' = [k EXCEPT ![a] = 0]
    /\ pc' = [pc EXCEPT ![a] = "idle"]
    /\ UNCHANGED <<strategy, data, self_signals, genVars, open_after,
                   out_signals>>

NextTwo ==
    \/ \E a \in Instances : NewOf(a)
    \/ \E a \in Instances : GenStartOf(a)
    \/ \E a \in Instances : GenBarOf(a)
    \/ \E a \in Instances : GenReturnOf(a)
    \/ \E a \in Instances : RetStartOf(a)
    \/ \E a \in Instances : RetSignalOf(a)
    \/ \E a \in Instances : RetReturnOf(a)

SpecTwo == InitTwo /\ [][NextTwo]_vars

-----------------------------------------------------------------------------
\* Properties

Breakout == {"AdaniEnterprises", "AdaniPorts"}

\* a scan is running or has run: open_after describes it
Scanned == pc = "gen" \/ out_signals # None

\* the signals of that scan, and the positions it has processed
ScanSignals == IF pc = "gen" THEN signals ELSE self_signals
Processed ==
    IF pc = "gen" THEN (Start(strategy) + 1)..i
    ELSE (Start(strategy) + 1)..NBars(data)

\* the position state when the scan reached position p
OpenBefore(p) == p > Start(strategy) + 1 /\ open_after[p - 1]

SignalAt(p) == \E m \in 1..Len(ScanSignals) : ScanSignals[m].timestamp = data.index[p]

\* C1: no two entries without an exit transition in between: every signal
\* is appended at a bar the scan reached FLAT and left LONG_OPEN, and between
\* two consecutive signals there is a bar the scan left FLAT
C1_Alternation ==
    Scanned =>
        /\ \A p \in Processed : SignalAt(p) => ~OpenBefore(p) /\ open_after[p]
        /\ \A m \in 1..(Len(ScanSignals) - 1) :
               \E p \in Processed :
                   /\ ScanSignals[m].timestamp < data.index[p]
                   /\ data.index[p] < ScanSignals[m + 1].timestamp
                   /\ ~open_after[p]
        /\ Len(ScanSignals) = Cardinality({p \in Processed : SignalAt(p)})

C1_Witness ==
    /\ pc = "idle"
    /\ out_signals # None
    /\ Len(self_signals) >= 2

\* the coverage range of signal m of a list: the bars after its timestamp up
\* to the next signal's timestamp, or to the end of the series
InRange(d, sigs, m, p) ==
    /\ d.index[p] > sigs[m].timestamp
    /\ m < Len(sigs) => d.index[p] =< sigs[m + 1].timestamp

\* position p is in the coverage range of some signal of the list
Covered(d, sigs, p) == \E m \in 1..Len(sigs) : InRange(d, sigs, m, p)

\* C2: the return series calculate_returns has returned has one entry per
\* bar, on the timestamps of the bar series, and is 0.0 at every bar outside
\* the coverage ranges of the signals
C2_IndexAndDefault ==
    out_returns # None =>
        LET r == out_returns[1]
        IN /\ r.index = data.index
           /\ DOMAIN r.values = 1..NBars(data)
           /\ \A p \in 1..NBars(data) :
                  ~Covered(data, r.of, p) => r.values[p] = Num(0)

C2_Witness ==
    /\ out_returns # None
    /\ Len(out_returns[1].of) >= 1
    /\ \E p \in 1..NBars(data) :
           /\ Covered(data, out_returns[1].of, p)
           /\ out_returns[1].values[p].n # 0
    /\ \E p \in 1..NBars(data) :
           /\ p > Start(strategy)
           /\ ~Covered(data, out_returns[1].of, p)

ScanAndReturns ==
    /\ pc = "idle"
    /\ out_signals # None
    /\ out_returns # None
    /\ out_returns[1].after_gen

\* C4: after generate_signals and calculate_returns, the return series is 0
\* at every bar the scan left FLAT: the bars between an exit and the next
\* entry and the bars after the last exit included
C4_ZeroWhenFlat ==
    ScanAndReturns =>
        \A p \in 1..NBars(data) :
            ~open_after[p] => EQ(out_returns[1].values[p], Num(0))

\* C5: a second generate_signals returns the list the first one returned,
\* a second calculate_returns returns the series the first one returned, and
\* every generate_signals starts FLAT with an empty list
C5_Idempotent ==
    [][/\ (GenReturn /\ out_signals # None) => out_signals' = out_signals
       /\ (RetReturn /\ out_returns # None /\ out_returns[1].after_gen)
              => out_returns' = out_returns
       /\ GenStart => /\ signals' = <<>>
                      /\ ~position_open'
                      /\ entry_price' = Num(0)
                      /\ entry_date' = None]_vars

\* a second scan has reached the end of the series, with the signals and the
\* return series of the first call at hand
C5_Witness ==
    /\ pc = "gen"
    /\ i >= NBars(data)
    /\ out_signals # None
    /\ Len(signals) >= 2
    /\ signals = out_signals[1]
    /\ out_returns # None
    /\ out_returns[1].after_gen
    /\ out_returns[1].of = signals

\* the warm-up bound of each strategy
WarmUp(s) ==
    CASE s = "ACC" -> 200
      [] s = "AdaniPower" -> 200
      [] s = "AdaniEnterprises" -> 20
      [] s = "AdaniPorts" -> 30

\* C6: on a series with no more bars than the warm-up bound the scan runs
\* no iteration, generate_signals returns the empty list and the following
\* calculate_returns returns 0 at every bar
C6_ShortSeries ==
    (pc # "new" /\ NBars(data) =< WarmUp(strategy)) =>
        /\ pc = "gen" => i >= NBars(data) /\ signals = <<>>
        /\ out_signals # None => out_signals[1] = <<>>
        /\ (out_returns # None /\ out_returns[1].after_gen) =>
               /\ DOMAIN out_returns[1].values = 1..NBars(data)
               /\ \A p \in 1..NBars(data) :
                      out_returns[1].values[p] = Num(0)

C6_Witness ==
    /\ ScanAndReturns
    /\ NBars(data) = WarmUp(strategy)
    /\ out_signals[1] = <<>>
    /\ \A p \in 1..NBars(data) : out_returns[1].values[p] = Num(0)

\* C7: every signal of a scan, and of the list generate_signals returns, has
\* type LONG
C7_OnlyLong ==
    /\ \A m \in 1..Len(signals) : signals[m].type = "LONG"
    /\ \A m \in 1..Len(self_signals) : self_signals[m].type = "LONG"
    /\ out_signals # None =>
           \A m \in 1..Len(out_signals[1]) : out_signals[1][m].type = "LONG"

C7_Witness ==
    /\ out_signals # None
    /\ Len(out_signals[1]) >= 1
    /\ out_signals[1][1].type = "LONG"
    /\ strategy = "ACC"

\* the window and the stop factor (in hundredths) of the breakout strategies
BreakoutWindow(s) == IF s = "AdaniEnterprises" THEN 20 ELSE 30
StopPercent(s) == IF s = "AdaniEnterprises" THEN 97 ELSE 95

\* the signal of the scan at position p, if there is one
SignalsAt(p) ==
    {m \in 1..Len(ScanSignals) : ScanSignals[m].timestamp = data.index[p]}

\* close at position p is above every high of the n bars before it
AboveHighs(p, n) ==
    /\ p - n >= 1
    /\ \A q \in (p - n)..(p - 1) : data.col["close"][p] > data.col["high"][q]

\* C8: in the breakout strategies, at every scanned bar the scan reaches
\* FLAT, a LONG signal is emitted iff close is strictly above the maximum of
\* high over the n bars before it (the bar itself excluded); the signal has
\* stop_loss = factor x close and take_profit = 1.12 x close
C8_Breakout ==
    (strategy \in Breakout /\ Scanned) =>
        \A p \in Processed :
            ~OpenBefore(p) =>
                /\ SignalAt(p) <=> AboveHighs(p, BreakoutWindow(strategy))
                /\ \A m \in SignalsAt(p) :
                       LET c == data.col["close"][p]
                       IN /\ ScanSignals[m].type = "LONG"
                          /\ ScanSignals[m].price = Num(c)
                          /\ EQ(ScanSignals[m].stop_loss,
                                Frac(StopPercent(strategy) * c, 100))
                          /\ EQ(ScanSignals[m].take_profit, Frac(112 * c, 100))

\* a scan that emitted at one FLAT bar and did not at another one whose close
\* is above the high of the bar before it
C8_Witness ==
    /\ strategy \in Breakout
    /\ pc = "idle"
    /\ out_signals # None
    /\ \E p \in Processed : ~OpenBefore(p) /\ SignalAt(p)
    /\ \E p \in Processed :
           /\ ~OpenBefore(p)
           /\ ~SignalAt(p)
           /\ data.col["close"][p] > data.col["high"][p - 1]

\* the 50-bar and the 200-bar mean of close at position p, compared as sums
Sum50(p) == WindowSum(data.col["close"], p - 49, p)
Sum200(p) == WindowSum(data.col["close"], p - 199, p)
SMA50Above(p) == p >= 200 /\ 200 * Sum50(p) > 50 * Sum200(p)
SMA50Below(p) == p >= 200 /\ 200 * Sum50(p) < 50 * Sum200(p)
SMA50NotAbove(p) == p >= 200 /\ 200 * Sum50(p) =< 50 * Sum200(p)

\* C9: in AdaniPower, a bar i >= 200 the scan reaches FLAT with SMA50 <=
\* SMA200 at i-1 and SMA50 > SMA200 at i gets a LONG signal with stop_loss =
\* 0.94 x close and take_profit = 1.12 x close; the position stays open up to
\* the first later bar j with SMA50 < SMA200, where it is closed and no
\* signal is appended
C9_Cross ==
    (strategy = "AdaniPower" /\ Scanned) =>
        \A p \in Processed :
            (~OpenBefore(p) /\ SMA50NotAbove(p - 1) /\ SMA50Above(p)) =>
                /\ SignalsAt(p) # {}
                /\ \A m \in SignalsAt(p) :
                       LET c == data.col["close"][p]
                       IN /\ ScanSignals[m].type = "LONG"
                          /\ ScanSignals[m].price = Num(c)
                          /\ EQ(ScanSignals[m].stop_loss, Frac(94 * c, 100))
                          /\ EQ(ScanSignals[m].take_profit, Frac(112 * c, 100))
                /\ \A j \in Processed :
                       (/\ j > p
                        /\ SMA50Below(j)
                        /\ \A q \in (p + 1)..(j - 1) : ~SMA50Below(q))
                       => /\ \A q \in p..(j - 1) : open_after[q]
                          /\ ~open_after[j]
                          /\ ~SignalAt(j)

\* a golden cross, one bar held, and the close at the first bar below
C9_Witness ==
    /\ strategy = "AdaniPower"
    /\ pc = "idle"
    /\ out_signals # None
    /\ \E p \in Processed : \E j \in Processed :
           /\ j > p + 1
           /\ SignalAt(p)
           /\ SMA50NotAbove(p - 1)
           /\ SMA50Above(p)
           /\ \A q \in p..(j - 1) : open_after[q]
           /\ SMA50Below(j)
           /\ ~open_after[j]
           /\ Len(out_signals[1]) = 1

\* C10: the scan never reads a signal's stop_loss or take_profit: at every
\* bar it reaches with a position open, the position is closed iff one of
\* the strategy's exit predicates holds; otherwise it stays open with the
\* same entry, whatever the close is against the signal's levels
C10_LevelsNotRead ==
    [][GenBar =>
          LET L == Locals(signals, position_open, entry_price, entry_date)
          IN position_open =>
                 IF ExitHolds(strategy, data, i, L)
                 THEN ~position_open' /\ signals' = signals
                 ELSE /\ position_open'
                      /\ signals' = signals
                      /\ entry_price' = entry_price
                      /\ entry_date' = entry_date]_vars

\* the scan has just left a position open at a bar whose close is at or
\* above the take_profit of its signal
C10_Witness ==
    /\ pc = "gen"
    /\ i > Start(strategy)
    /\ position_open
    /\ open_after[i]
    /\ signals # <<>>
    /\ signals[Len(signals)].timestamp < data.index[i]
    /\ GE(Num(data.col["close"][i]), signals[Len(signals)].take_profit)

\* the calendar date of a timestamp, and the holding limits in days
DateOf(t) == t \div TicksPerDay
LimitDays(s) == IF s = "ACC" THEN 8 ELSE 10

\* C11: in ACC, AdaniEnterprises and AdaniPorts the holding-period exit
\* holds at the bar the scan is at exactly when the date of that bar is at
\* least the limit of calendar days after the date of the entry bar,
\* whatever the times of day of the two bars
C11_CalendarDays ==
    (pc = "gen" /\ i < NBars(data) /\ position_open
     /\ strategy # "AdaniPower") =>
        (HoldingExit(strategy, data, i,
                     Locals(signals, position_open, entry_price, entry_date))
         <=> DateOf(data.index[i + 1]) - DateOf(entry_date[1])
                 >= LimitDays(strategy))

\* the bar series has no missing value
NoMissing ==
    \A c \in {"open", "high", "low", "close", "volume"} : data.isna[c] = {}

\* the scan is at bar i, about to process it
AtBar == pc = "gen" /\ i < NBars(data)

Defined(name, j) == ~IsNaN(At(data, name, j))

\* the 5-bar high and low at index j and 5 bars before it
HighsDefined(j) ==
    /\ j >= 9
    /\ ~IsNaN(RollingMax(data, "high", 5, j + 1))
    /\ ~IsNaN(RollingMax(data, "high", 5, j - 4))
LowsDefined(j) ==
    /\ j >= 9
    /\ ~IsNaN(RollingMin(data, "low", 5, j + 1))
    /\ ~IsNaN(RollingMin(data, "low", 5, j - 4))

\* C12: on a bar series without missing values, at every index i the scan
\* visits, every indicator value the predicates read at i or i-1 is defined
C12_IndicatorsDefined ==
    (AtBar /\ NoMissing) =>
        CASE strategy = "AdaniEnterprises" -> Defined("High_20", i - 1)
          [] strategy = "AdaniPorts" -> Defined("High_30", i - 1)
          [] strategy = "AdaniPower" ->
                 \A j \in {i - 1, i} :
                     Defined("SMA_50", j) /\ Defined("SMA_200", j)
          [] strategy = "ACC" ->
                 /\ \A name \in {"SMA_20", "SMA_50", "SMA_200", "RSI", "ATR",
                                 "ATR_MA", "MACD", "MACD_Signal", "MACD_Hist",
                                 "Volume_MA", "Volume_Ratio", "ROC_5",
                                 "ROC_20"} : Defined(name, i)
                 /\ HighsDefined(i)
                 /\ LowsDefined(i)

\* the ACC scan at its first bar, whose ATR_MA has a first defined value
\* long before: index 33
C12_Witness ==
    /\ AtBar
    /\ NoMissing
    /\ strategy = "ACC"
    /\ i = Start(strategy)
    /\ IsNaN(At(data, "ATR_MA", 32))
    /\ Defined("ATR_MA", 33)
    /\ IsNaN(At(data, "MACD_Signal", 32))
    /\ Defined("SMA_200", 199)
    /\ IsNaN(At(data, "SMA_200", 198))

\* C13: at a bar where an indicator value is undefined, every entry or exit
\* predicate that reads it is false, each conjunct of the ACC entry test
\* included, so that no entry fires on it
C13_UndefinedIsFalse ==
    AtBar =>
        LET L == Locals(signals, position_open, entry_price, entry_date)
        IN CASE strategy = "AdaniEnterprises" ->
                    ~Defined("High_20", i - 1)
                        => ~AdaniEnterprisesEntry(data, i, L)
             [] strategy = "AdaniPorts" ->
                    ~Defined("High_30", i - 1) => ~AdaniPortsEntry(data, i, L)
             [] strategy = "AdaniPower" ->
                    (\E j \in {i - 1, i} :
                         ~Defined("SMA_50", j) \/ ~Defined("SMA_200", j))
                    => ~golden_cross(data, i) /\ ~death_cross(data, i)
             [] strategy = "ACC" ->
                    /\ (~Defined("ATR", i) \/ ~Defined("ATR_MA", i))
                           => ~volatility_exit(data, i) /\ ~volatility_ok(data, i)
                    /\ ~Defined("SMA_20", i)
                           => /\ ~trend_exit(data, i)
                              /\ ~trend_ok(data, i)
                              /\ ~pattern_ok(data, i)
                    /\ (~Defined("SMA_50", i) \/ ~Defined("SMA_200", i))
                           => ~trend_ok(data, i)
                    /\ (\E name \in {"MACD", "MACD_Signal", "MACD_Hist"} :
                            ~Defined(name, i))
                           => ~momentum_exit(data, i) /\ ~momentum_ok(data, i)
                    /\ ~Defined("RSI", i)
                           => ~rsi_exit(data, i) /\ ~momentum_ok(data, i)
                    /\ (~Defined("ROC_5", i) \/ ~Defined("ROC_20", i))
                           => ~momentum_ok(data, i)
                    /\ ~Defined("Volume_Ratio", i) => ~volume_ok(data, i)
                    /\ (~HighsDefined(i) \/ ~LowsDefined(i))
                           => ~pattern_ok(data, i) /\ ~ACCEntry(data, i, L)

\* the first n bars of a frame
Truncate(d, n) ==
    [index |-> SubSeq(d.index, 1, n),
     col |-> [c \in DOMAIN d.col |-> SubSeq(d.col[c], 1, n)],
     isna |-> [c \in DOMAIN d.isna |-> {q \in d.isna[c] : q =< n}],
     derived |-> d.derived]

\* the locals of a scan of frame d after the bars before index n
RECURSIVE ScanTo(_, _, _)
ScanTo(s, d, n) ==
    IF n =< Start(s) THEN Locals(<<>>, FALSE, Num(0), None)
    ELSE Iter(s, d, n - 1, ScanTo(s, d, n - 1))

\* the signals of a list up to timestamp t
UpTo(sigs, t) ==
    LET Early(x) == x.timestamp =< t
    IN SelectSeq(sigs, Early)

\* C14: no look-ahead: the signals and the position state after the bars
\* before index i are those of a scan of the series cut after these bars,
\* and the signals of the complete list up to any bar are those of a scan of
\* the series cut after that bar
C14_NoLookAhead ==
    pc = "gen" =>
        /\ Locals(signals, position_open, entry_price, entry_date)
               = ScanTo(strategy, Truncate(data, i), i)
        /\ i >= NBars(data) =>
               \A n \in (Start(strategy) + 1)..NBars(data) :
                   UpTo(signals, data.index[n])
                       = ScanTo(strategy, Truncate(data, n), n).signals

\* a complete scan with a signal that bars follow
C14_Witness ==
    /\ pc = "gen"
    /\ i >= NBars(data)
    /\ signals # <<>>
    /\ signals[1].timestamp < data.index[NBars(data) - 1]
    /\ ~position_open

\* the locals of calculate_returns on frame d and list sigs after the first
\* n signals
RECURSIVE RetTo(_, _, _)
RetTo(d, sigs, n) ==
    IF n = 0 THEN RetLocals(Zeros(d), 0, Num(0), None)
    ELSE RetIter(d, sigs, n - 1, RetTo(d, sigs, n - 1))

\* instance a run alone on the series it was built on: the constructed
\* frame, the list generate_signals returns and the series
\* calculate_returns returns
SoloData(a) == Construct(strategy[a], [data[a] EXCEPT !.derived = {}])

SoloSignals(a) ==
    ScanTo(strategy[a], SoloData(a), NBars(SoloData(a))).signals

SoloReturns(a) ==
    RetTo(SoloData(a), SoloSignals(a), Len(SoloSignals(a))).returns

\* C15: instances on distinct series do not interfere: under any
\* interleaving of the steps of the two runs, what generate_signals and
\* calculate_returns return to an instance is what they return when the
\* instance runs alone
C15_NonInterference ==
    \A a \in Instances :
        /\ out_signals[a] # None => out_signals[a][1] = SoloSignals(a)
        /\ out_returns[a] # None =>
               /\ out_returns[a][1].index = SoloData(a).index
               /\ out_returns[a][1].values = SoloReturns(a)

\* the first instance has its list and is past the first signal of
\* calculate_returns, with a return that is not zero, while the second is
\* in the loop of generate_signals, holding the position of its first bar
C15_Witness ==
    /\ out_signals[1] # None
    /\ out_signals[1][1] # <<>>
    /\ pc[1] = "ret"
    /\ k[1] = 1
    /\ \E p \in 1..Len(returns[1]) : returns[1][p] # Num(0)
    /\ pc[2] = "gen"
    /\ i[2] = Start(strategy[2]) + 1
    /\ position_open[2]
    /\ signals[2] # <<>>

\* some exit predicate of the strategy holds at index j, predicate by
\* predicate
AnyExit(j, L) ==
    LET c == At(data, "close", j)
    IN CASE strategy = "ACC" ->
                \/ volatility_exit(data, j)
                \/ trend_exit(data, j)
                \/ momentum_exit(data, j)
                \/ rsi_exit(data, j)
                \/ LE(c, Times(L.entry_price, 98, 100))
                \/ GE(c, Times(L.entry_price, 104, 100))
                \/ HoldingExit(strategy, data, j, L)
         [] strategy = "AdaniEnterprises" ->
                \/ HoldingExit(strategy, data, j, L)
                \/ LE(c, Times(L.entry_price, 97, 100))
         [] strategy = "AdaniPorts" ->
                \/ HoldingExit(strategy, data, j, L)
                \/ LE(c, Times(L.entry_price, 95, 100))
         [] strategy = "AdaniPower" -> death_cross(data, j)

\* C16: with a position open at bar i, if any exit predicate of the
\* strategy holds the scan becomes FLAT, entry price 0 and entry date none,
\* and the signal list is unchanged; if none holds, the position, the entry
\* price and the entry date are unchanged
C16_ExitEffect ==
    [][(GenBar /\ position_open) =>
          LET L == Locals(signals, position_open, entry_price, entry_date)
          IN IF AnyExit(i, L)
             THEN /\ ~position_open'
                  /\ entry_price' = Num(0)
                  /\ entry_date' = None
                  /\ signals' = signals
             ELSE /\ position_open'
                  /\ entry_price' = entry_price
                  /\ entry_date' = entry_date]_vars

\* the scan has just closed a position
C16_Witness ==
    /\ pc = "gen"
    /\ i > Start(strategy) + 1
    /\ open_after[i - 1]
    /\ ~open_after[i]
    /\ ~position_open
    /\ entry_price = Num(0)
    /\ entry_date = None
    /\ Len(signals) = 1

\* C17: every signal is the signal of exactly one scanned bar at or after
\* the warm-up bound, with that bar's timestamp and close; the entry price
\* and date of an open position are those of the last signal; the list is
\* strictly ascending in timestamp
C17_SignalIsBar ==
    Scanned =>
        /\ \A m \in 1..Len(ScanSignals) :
               LET bars == {p \in Processed :
                               data.index[p] = ScanSignals[m].timestamp}
               IN /\ Cardinality(bars) = 1
                  /\ \A p \in bars :
                         /\ p - 1 >= WarmUp(strategy)
                         /\ ScanSignals[m].price = Num(data.col["close"][p])
                         /\ p \notin data.isna["close"]
        /\ \A m \in 1..(Len(ScanSignals) - 1) :
               ScanSignals[m].timestamp < ScanSignals[m + 1].timestamp
        /\ (pc = "gen" /\ position_open) =>
               /\ signals # <<>>
               /\ entry_price = signals[Len(signals)].price
               /\ entry_date = Some(signals[Len(signals)].timestamp)

\* a scan holding the position of its second signal
C17_Witness ==
    /\ pc = "gen"
    /\ position_open
    /\ Len(signals) = 2
    /\ entry_price = signals[2].price
    /\ entry_price # signals[1].price

\* C18: in ACC, AdaniEnterprises and AdaniPorts a position entered at a bar
\* with timestamp T is closed at the latest when the scan processes the
\* first bar whose timestamp is at least the limit (8, 10, 10 days) after T
C18_BoundedHolding ==
    (Scanned /\ strategy # "AdaniPower") =>
        \A p \in Processed : \A q \in Processed :
            (/\ SignalAt(p)
             /\ q > p
             /\ data.index[q] - data.index[p]
                    >= LimitDays(strategy) * TicksPerDay)
            => \E r \in (p + 1)..q : ~open_after[r]

\* a position held up to the first bar ten (eight) days after its entry,
\* and closed there
C18_Witness ==
    /\ Scanned
    /\ strategy # "AdaniPower"
    /\ \E p \in Processed : \E q \in Processed :
           /\ SignalAt(p)
           /\ q > p + 1
           /\ data.index[q] - data.index[p] = LimitDays(strategy) * TicksPerDay
           /\ \A r \in p..(q - 1) : open_after[r]
           /\ ~open_after[q]

\* the bars signal m of a list makes calculate_returns write
Written(sigs, m) == Mask(data, sigs, m - 1, sigs[m].timestamp)

\* the latest signal of a list with a timestamp before t
LatestBefore(sigs, t) ==
    CHOOSE m \in 1..Len(sigs) :
        /\ sigs[m].timestamp < t
        /\ \A m2 \in 1..Len(sigs) : sigs[m2].timestamp < t => m2 =< m

ReturnOn(p, price) ==
    Frac(data.col["close"][p] * price.d - price.n, price.n)

C20_NeverOpenBelow ==
    (strategy = "AdaniPower" /\ Scanned /\ data.isna["close"] = {}) =>
        \A p \in Processed : open_after[p] => 50 * Sum200(p) =< 200 * Sum50(p)

\* a position open on a bar with SMA_50 above SMA_200 and closed on the first
\* bar with SMA_50 below it, while a position is open after the last bar
C20_Witness ==
    /\ strategy = "AdaniPower"
    /\ pc = "idle"
    /\ out_signals # None
    /\ Len(out_signals[1]) = 2
    /\ open_after[NBars(data)]
    /\ \E p \in Processed :
           /\ open_after[p]
           /\ SMA50Above(p)
           /\ SMA50Below(p + 1)
           /\ ~open_after[p + 1]

\* the locals the scan holds on reaching position p with a position open:
\* the entry of the latest signal before the bar
EntryOf(p) ==
    LET m == LatestBefore(ScanSignals, data.index[p])
    IN Locals(<<>>, TRUE, ScanSignals[m].price, Some(ScanSignals[m].timestamp))

\* the exit transition fires at position p
ExitFires(p) == OpenBefore(p) /\ AnyExit(p - 1, EntryOf(p))

\* the position of the bar of the m-th signal
BarOf(m) ==
    CHOOSE p \in 1..NBars(data) : data.index[p] = ScanSignals[m].timestamp

\* C21: a bar on which the exit transition fires carries no entry: the scan
\* leaves it FLAT and with no signal of that bar, whatever the entry
\* predicates are there; any two consecutive signals are at least two bars
\* apart
C21_ExitBarNoEntry ==
    Scanned =>
        /\ \A p \in Processed :
               ExitFires(p) => ~open_after[p] /\ ~SignalAt(p)
        /\ \A m \in 1..(Len(ScanSignals) - 1) : BarOf(m + 1) - BarOf(m) >= 2

\* an exit at a bar on which the entry predicates hold
C21_Witness ==
    /\ Scanned
    /\ \E p \in Processed :
           /\ ExitFires(p)
           /\ EntryHolds(strategy, data, p - 1, Locals(<<>>, FALSE, Num(0), None))
           /\ ~open_after[p]
           /\ ~SignalAt(p)

\* the columns of the input bars
OHLCV == {"open", "high", "low", "close", "volume"}

\* C22: no step of the constructor, of generate_signals or of
\* calculate_returns changes the timestamps of the bar series, their number
\* and order, or a value of open, high, low, close and volume; the
\* constructor adds derived columns and the two calls leave the series as
\* it is
C22_InputKept ==
    [][/\ data'.index = data.index
       /\ \A c \in OHLCV :
              /\ data'.col[c] = data.col[c]
              /\ data'.isna[c] = data.isna[c]
       /\ data.derived \subseteq data'.derived
       /\ pc # "new" => data' = data]_vars

\* an instance on a series with bars after the warm-up, constructed, with
\* a non-empty list from generate_signals and the returns of that list
C22_Witness ==
    /\ pc = "idle"
    /\ data.derived # {}
    /\ NBars(data) > Start(strategy)
    /\ out_signals # None
    /\ out_signals[1] # <<>>
    /\ out_returns # None
    /\ out_returns[1].of = out_signals[1]
    /\ out_returns[1].index = data.index

====
